---- MODULE Spec2Model ----
(***************************************************************************)
(* Model of frontend/src/hooks/useStorage.ts: the React hook useStorage,   *)
(* which calls init(), constructs a ClientStorage and republishes either   *)
(* the instance or the failure.                                            *)
(*                                                                         *)
(* Every mount of a component that uses the hook is one hook instance      *)
(* (its own useState cells and its own run of the effect).  A remount is   *)
(* a new instance, so Instances covers mount/unmount/remount sequences     *)
(* and several components of one process alike.                            *)
(***************************************************************************)
EXTENDS Integers, Sequences, FiniteSets

\* Number of hook instances (mounts) of one process that the model follows.
MaxMounts == 2

Instances == 1..MaxMounts

----------------------------------------------------------------------------
(* JavaScript values.  All values are records of one shape so that any two *)
(* of them can be compared: kind is the type tag, ref the object identity  *)
(* (NoRef for primitives), num and str the primitive payload (for  *)
(* an Error, str is its message).                                          *)

NoRef == <<"none", 0, 0>>

Null == [kind |-> "null", ref |-> NoRef, num |-> 0, str |-> ""]

Undefined == [kind |-> "undefined", ref |-> NoRef, num |-> 0, str |-> ""]

MkString(s) == [kind |-> "string", ref |-> NoRef, num |-> 0, str |-> s]

MkNumber(n) == [kind |-> "number", ref |-> NoRef, num |-> n, str |-> ""]

\* An Error object that already exists when it is thrown; k is its identity.
MkError(k, msg) == [kind |-> "Error", ref |-> <<"thrown", k, 0>>, num |-> 0, str |-> msg]

\* An object without a prototype (Object.create(null)): it has neither
\* toString nor valueOf, so converting it to a string throws a TypeError.
BareObject == [kind |-> "bareobject", ref |-> <<"thrown", 2, 0>>, num |-> 0, str |-> ""]

\* The values init() and the ClientStorage constructor may throw: an Error
\* object, a string, a number, undefined and a prototype-less object.
Thrown == { MkError(1, "boom"), MkString("boom"), MkNumber(42), Undefined, BareObject }

IsError(v) == v.kind = "Error"

----------------------------------------------------------------------------
(* String(v), as line 17 applies it to a caught non-Error value.           *)

Digit(d) == SubSeq("0123456789", d + 1, d + 1)

RECURSIVE NatToString(_)
NatToString(n) == IF n < 10 THEN Digit(n) ELSE NatToString(n \div 10) \o Digit(n % 10)

\* The result of String(v): either a string or a thrown TypeError.
StringOf(v) ==
    CASE v.kind = "string"     -> [threw |-> FALSE, str |-> v.str]
      [] v.kind = "number"     -> [threw |-> FALSE,
                                   str |-> IF v.num < 0 THEN "-" \o NatToString(-v.num)
                                                        ELSE NatToString(v.num)]
      [] v.kind = "undefined"  -> [threw |-> FALSE, str |-> "undefined"]
      [] v.kind = "null"       -> [threw |-> FALSE, str |-> "null"]
      [] v.kind = "object"     -> [threw |-> FALSE, str |-> "[object Object]"]
      [] v.kind = "Error"      -> [threw |-> FALSE, str |-> "Error: " \o v.str]
      [] v.kind = "bareobject" -> [threw |-> TRUE,
                                   str |-> "Cannot convert object to primitive value"]

\* err instanceof Error ? err : new Error(String(err)), in the n-th catch of
\* instance i.  The result is either the value handed to setError or, when
\* String(err) throws, the TypeError that leaves the catch block.
NormalizeError(i, n, err) ==
    IF IsError(err)
    THEN [threw |-> FALSE, value |-> err]
    ELSE LET s == StringOf(err) IN
         [threw |-> s.threw,
          value |-> [kind |-> "Error",
                     ref |-> <<IF s.threw THEN "new TypeError" ELSE "new Error", i, n>>,
                     num |-> 0, str |-> s.str]]

\* new ClientStorage(), the n-th construction of instance i, when it succeeds.
NewClientStorage(i, n) ==
    [kind |-> "ClientStorage", ref |-> <<"new ClientStorage", i, n>>,
     num |-> 0, str |-> ""]

----------------------------------------------------------------------------
VARIABLES
    life,         \* per instance: "absent", "mounted" or "unmounted"
    pc,           \* per instance: where its effect / initStorage() stands
    storage,      \* the useState cell of line 7
    error,        \* the useState cell of line 8
    returned,     \* the { storage, error } the last render returned (line 23)
    rejection,    \* the value init()'s promise rejected with, or Null
    initState,    \* init(): "notcalled", "pending", "fulfilled", "rejected"
    initCalls,    \* number of init() calls made by the instance
    ctorCalls,    \* number of new ClientStorage() evaluations of the instance
    setCalls,     \* number of setStorage / setError calls of the instance
    origin,       \* which call failed: "none", "init" or "ctor"
    cause,        \* the value that reached the catch block, or Null
    escaped,      \* the value initStorage()'s promise rejected with, or Null
    leftPending   \* the instance was unmounted while init() was pending

vars ==
    << life, pc, storage, error, returned, rejection, initState, initCalls,
       ctorCalls, setCalls, origin, cause, escaped, leftPending >>

\* What line 23 returns for the current cells.
Render(i) == [storage |-> storage[i], error |-> error[i]]

\* setStorage(h): React updates the cell of a mounted component and drops an
\* update of an unmounted one.
SetStorage(i, h) ==
    /\ storage' = IF life[i] = "mounted" THEN [storage EXCEPT ![i] = h] ELSE storage
    /\ setCalls' = [setCalls EXCEPT ![i] = @ + 1]

\* setError(e), likewise.
SetError(i, e) ==
    /\ error' = IF life[i] = "mounted" THEN [error EXCEPT ![i] = e] ELSE error
    /\ setCalls' = [setCalls EXCEPT ![i] = @ + 1]

Init ==
    /\ life = [i \in Instances |-> "absent"]
    /\ pc = [i \in Instances |-> "idle"]
    /\ storage = [i \in Instances |-> Null]
    /\ error = [i \in Instances |-> Null]
    /\ returned = [i \in Instances |-> [storage |-> Null, error |-> Null]]
    /\ rejection = [i \in Instances |-> Null]
    /\ initState = [i \in Instances |-> "notcalled"]
    /\ initCalls = [i \in Instances |-> 0]
    /\ ctorCalls = [i \in Instances |-> 0]
    /\ setCalls = [i \in Instances |-> 0]
    /\ origin = [i \in Instances |-> "none"]
    /\ cause = [i \in Instances |-> Null]
    /\ escaped = [i \in Instances |-> Null]
    /\ leftPending = [i \in Instances |-> FALSE]

\* First render and commit of a component using the hook (lines 7, 8, 23):
\* both cells start null and the effect of line 10 is scheduled.  Instances
\* are taken in order.
Mount(i) ==
    /\ life[i] = "absent"
    /\ \A j \in Instances : j < i => life[j] # "absent"
    /\ life' = [life EXCEPT ![i] = "mounted"]
    /\ storage' = [storage EXCEPT ![i] = Null]
    /\ error' = [error EXCEPT ![i] = Null]
    /\ returned' = [returned EXCEPT ![i] = [storage |-> Null, error |-> Null]]
    /\ pc' = [pc EXCEPT ![i] = "effect"]
    /\ UNCHANGED << rejection, initState, initCalls, ctorCalls, setCalls, origin,
                    cause, escaped, leftPending >>

\* Variant of Catch that schedules the effect again after surfacing the
\* error (a retrying initializer).
CatchRetry(i, v, from) ==
    LET e == NormalizeError(i, setCalls[i] + 1, v) IN
    /\ origin' = [origin EXCEPT ![i] = from]
    /\ cause' = [cause EXCEPT ![i] = v]
    /\ pc' = [pc EXCEPT ![i] = "effect"]
    /\ IF e.threw
       THEN /\ escaped' = [escaped EXCEPT ![i] = e.value]
            /\ UNCHANGED << error, setCalls >>
       ELSE /\ SetError(i, e.value)
            /\ UNCHANGED escaped

\* The catch block (lines 16-18) for caught value v, thrown by `from`.
Catch(i, v, from) ==
    LET e == NormalizeError(i, setCalls[i] + 1, v) IN
    /\ origin' = [origin EXCEPT ![i] = from]
    /\ cause' = [cause EXCEPT ![i] = v]
    /\ pc' = [pc EXCEPT ![i] = "done"]
    /\ IF e.threw
       THEN /\ escaped' = [escaped EXCEPT ![i] = e.value]
            /\ UNCHANGED << error, setCalls >>
       ELSE /\ SetError(i, e.value)
            /\ UNCHANGED escaped

\* Variant of TrySucceed in which a statement after setStorage throws
\* undefined, so that the catch block runs although the instance is published.
TrySucceedThenThrow(i) ==
    /\ storage' = IF life[i] = "mounted"
                  THEN [storage EXCEPT ![i] = NewClientStorage(i, ctorCalls[i] + 1)]
                  ELSE storage
    /\ error' = IF life[i] = "mounted"
                THEN [error EXCEPT ![i] = NormalizeError(i, setCalls[i] + 2, Undefined).value]
                ELSE error
    /\ setCalls' = [setCalls EXCEPT ![i] = @ + 2]
    /\ pc' = [pc EXCEPT ![i] = "done"]
    /\ UNCHANGED << origin, cause, escaped >>

\* Lines 14-15 when the constructor returns: setStorage(clientStorage).
TrySucceed(i) ==
    /\ SetStorage(i, NewClientStorage(i, ctorCalls[i] + 1))
    /\ pc' = [pc EXCEPT ![i] = "done"]
    /\ UNCHANGED << error, origin, cause, escaped >>

\* Variant of RunEffect without the await of line 13: the instance is
\* constructed and published while init() is still pending.
RunEffectNoAwait(i) ==
    /\ life[i] = "mounted"
    /\ pc[i] = "effect"
    /\ initCalls' = [initCalls EXCEPT ![i] = @ + 1]
    /\ initState' = [initState EXCEPT ![i] = "pending"]
    /\ ctorCalls' = [ctorCalls EXCEPT ![i] = @ + 1]
    /\ TrySucceed(i)
    /\ UNCHANGED << life, returned, rejection, leftPending >>

\* The effect (lines 10-21), run once after the first commit: initStorage()
\* calls init() and either suspends at the await of line 13 or, when init()
\* throws synchronously, runs the catch block at once.
RunEffect(i) ==
    /\ life[i] = "mounted"
    /\ pc[i] = "effect"
    /\ initCalls' = [initCalls EXCEPT ![i] = @ + 1]
    /\ \/ /\ pc' = [pc EXCEPT ![i] = "await"]
          /\ initState' = [initState EXCEPT ![i] = "pending"]
          /\ UNCHANGED << storage, error, setCalls, origin, cause, escaped >>
       \/ \E v \in Thrown :
             /\ initState' = [initState EXCEPT ![i] = "rejected"]
             /\ Catch(i, v, "init")
             /\ UNCHANGED storage
    /\ UNCHANGED << life, returned, rejection, ctorCalls, leftPending >>

\* init()'s promise is fulfilled; the continuation of line 13 is queued.
InitResolve(i) ==
    /\ pc[i] = "await"
    /\ pc' = [pc EXCEPT ![i] = "resolved"]
    /\ initState' = [initState EXCEPT ![i] = "fulfilled"]
    /\ UNCHANGED << life, storage, error, returned, rejection, initCalls,
                    ctorCalls, setCalls, origin, cause, escaped, leftPending >>

\* init()'s promise is rejected with v; the continuation is queued.
InitReject(i, v) ==
    /\ pc[i] = "await"
    /\ pc' = [pc EXCEPT ![i] = "rejected"]
    /\ initState' = [initState EXCEPT ![i] = "rejected"]
    /\ rejection' = [rejection EXCEPT ![i] = v]
    /\ UNCHANGED << life, storage, error, returned, initCalls, ctorCalls,
                    setCalls, origin, cause, escaped, leftPending >>

\* initStorage() resumes after the await (lines 13-18).  After a fulfilled
\* init() it evaluates new ClientStorage(), which returns or throws; after a
\* rejected one the await throws the rejection into the catch block.  Nothing
\* here looks at whether the component is still mounted.
Resume(i) ==
    /\ pc[i] \in {"resolved", "rejected"}
    /\ IF pc[i] = "resolved"
       THEN /\ ctorCalls' = [ctorCalls EXCEPT ![i] = @ + 1]
            /\ \/ TrySucceed(i)
               \/ \E v \in Thrown : Catch(i, v, "ctor") /\ UNCHANGED storage
       ELSE /\ Catch(i, rejection[i], "init")
            /\ UNCHANGED << storage, ctorCalls >>
    /\ UNCHANGED << life, returned, rejection, initState, initCalls, leftPending >>

\* Variant of Rerender for an effect without a dependency list: the effect
\* runs again after every render that finds initStorage() finished.
RerenderNoDeps(i) ==
    /\ life[i] = "mounted"
    /\ pc[i] # "effect"
    /\ returned' = [returned EXCEPT ![i] = Render(i)]
    /\ pc' = [pc EXCEPT ![i] = IF @ = "done" THEN "effect" ELSE @]
    /\ UNCHANGED << life, storage, error, rejection, initState, initCalls,
                    ctorCalls, setCalls, origin, cause, escaped, leftPending >>

\* Variant of Rerender for an effect with the dependency list [storage]: the
\* effect runs again after the render that first sees a new storage.
RerenderDepsStorage(i) ==
    /\ life[i] = "mounted"
    /\ pc[i] # "effect"
    /\ returned' = [returned EXCEPT ![i] = Render(i)]
    /\ pc' = [pc EXCEPT ![i] =
                IF @ = "done" /\ returned[i].storage # storage[i] THEN "effect" ELSE @]
    /\ UNCHANGED << life, storage, error, rejection, initState, initCalls,
                    ctorCalls, setCalls, origin, cause, escaped, leftPending >>

\* A later render of a mounted component (its own state update or its
\* parent's): line 23 returns the current cells; the dependency list [] of
\* line 21 keeps the effect from running again.
Rerender(i) ==
    /\ life[i] = "mounted"
    /\ pc[i] # "effect"
    /\ returned' = [returned EXCEPT ![i] = Render(i)]
    /\ UNCHANGED << life, pc, storage, error, rejection, initState, initCalls,
                    ctorCalls, setCalls, origin, cause, escaped, leftPending >>

\* The component unmounts.  The effect returns no cleanup function, so
\* nothing of initStorage() is cancelled.
Unmount(i) ==
    /\ life[i] = "mounted"
    /\ life' = [life EXCEPT ![i] = "unmounted"]
    /\ leftPending' = [leftPending EXCEPT ![i] = (pc[i] = "await")]
    /\ UNCHANGED << pc, storage, error, returned, rejection, initState, initCalls,
                    ctorCalls, setCalls, origin, cause, escaped >>

Next ==
    \E i \in Instances :
        \/ Mount(i)
        \/ RunEffect(i)
        \/ InitResolve(i)
        \/ \E v \in Thrown : InitReject(i, v)
        \/ Resume(i)
        \/ Rerender(i)
        \/ Unmount(i)

Spec == Init /\ [][Next]_vars

----------------------------------------------------------------------------
(* Properties.                                                             *)

\* initStorage() of instance i has run to its end.
Finished(i) == pc[i] = "done"

\* init() of instance i has settled.
Settled(i) == initState[i] \in {"fulfilled", "rejected"}

RECURSIVE SumUpTo(_, _)
SumUpTo(f, n) == IF n = 0 THEN 0 ELSE f[n] + SumUpTo(f, n - 1)

\* Number of ClientStorage constructions of the whole process.
TotalConstructions == SumUpTo(ctorCalls, MaxMounts)

\* C1: in every state, for every hook instance, storage and error are never
\* both non-null, neither in the cells nor in what the last render returned.
C1_NeverBoth ==
    \A i \in Instances :
        /\ ~(storage[i] # Null /\ error[i] # Null)
        /\ ~(returned[i].storage # Null /\ returned[i].error # Null)

\* One instance has returned an instance to its caller and another one an
\* error that came from the constructor.
C1_Witness ==
    \E i, j \in Instances :
        /\ returned[i].storage # Null /\ returned[i].error = Null
        /\ returned[j].error # Null /\ returned[j].storage = Null
        /\ origin[j] = "ctor"

\* C2: a ClientStorage is constructed (and an instance held) only by an
\* instance whose own init() call was fulfilled; never while init() is not
\* called, pending or rejected.
C2_CtorOnlyAfterInit ==
    \A i \in Instances :
        (ctorCalls[i] > 0 \/ storage[i] # Null) => initState[i] = "fulfilled"

\* One instance constructed after its init() was fulfilled, and another one
\* finished after a rejected init() without constructing.
C2_Witness ==
    \E i, j \in Instances :
        /\ ctorCalls[i] = 1 /\ initState[i] = "fulfilled"
        /\ Finished(j) /\ initState[j] = "rejected" /\ ctorCalls[j] = 0

\* C3: two mounted instances of which one failed in init() and the other in
\* the constructor never expose the same state.
C3_FailureOriginsDistinguishable ==
    \A i, j \in Instances :
        ( /\ Finished(i) /\ life[i] = "mounted" /\ origin[i] = "init"
          /\ Finished(j) /\ life[j] = "mounted" /\ origin[j] = "ctor" )
        => Render(i) # Render(j)

\* C4: once initStorage() of a mounted instance has run to its end, exactly
\* one of storage and error is non-null, storage when init() and the
\* constructor both succeeded and error when either failed, and no failure
\* has escaped initStorage().
C4_OutcomeRepublished ==
    \A i \in Instances :
        (Finished(i) /\ life[i] = "mounted") =>
            /\ escaped[i] = Null
            /\ IF origin[i] = "none"
               THEN storage[i] # Null /\ error[i] = Null
               ELSE error[i] # Null /\ storage[i] = Null

\* C5: once error is set, no step calls init() or the constructor again for
\* that instance, changes its cells, or takes initStorage() out of its end.
C5_ErrorIsTerminal ==
    [][ \A i \in Instances :
          error[i] # Null =>
              /\ initCalls'[i] = initCalls[i]
              /\ ctorCalls'[i] = ctorCalls[i]
              /\ error'[i] = error[i]
              /\ storage'[i] = storage[i]
              /\ pc[i] = "done" /\ pc'[i] = "done" ]_vars

\* An instance whose error, set after a failed constructor, has already been
\* returned by a later render, and one likewise after a failed init().
C5_Witness ==
    \E i, j \in Instances :
        /\ returned[i].error # Null /\ origin[i] = "ctor"
        /\ returned[j].error # Null /\ origin[j] = "init"

\* C6: every hook instance calls init() at most once and constructs at most
\* one ClientStorage, whatever renders happen.
C6_AtMostOnce ==
    \A i \in Instances : initCalls[i] <= 1 /\ ctorCalls[i] <= 1

\* An instance that has called init() and constructed once and has rendered
\* again after its setStorage.
C6_Witness ==
    \E i \in Instances :
        initCalls[i] = 1 /\ ctorCalls[i] = 1 /\ returned[i].storage # Null

\* C7: the whole process constructs at most one ClientStorage.
C7_ProcessWideSingleton == TotalConstructions <= 1

\* C8: a mounted instance that failed exposes an Error: the thrown value
\* itself when that is an Error, otherwise a new Error whose message is
\* String(v).
C8_ExposedErrorIsError ==
    \A i \in Instances :
        (Finished(i) /\ life[i] = "mounted" /\ origin[i] # "none") =>
            /\ IsError(error[i])
            /\ IsError(cause[i]) => error[i] = cause[i]
            /\ ~IsError(cause[i]) =>
                  /\ error[i].ref[1] = "new Error"
                  /\ ~StringOf(cause[i]).threw
                  /\ error[i].str = StringOf(cause[i]).str

\* C9: an instance unmounted while its init() was pending constructs nothing
\* and calls neither setStorage nor setError afterwards.
C9_NothingAfterUnmount ==
    [][ \A i \in Instances :
          (life[i] = "unmounted" /\ leftPending[i]) =>
              /\ ctorCalls'[i] = ctorCalls[i]
              /\ setCalls'[i] = setCalls[i] ]_vars

\* C10: storage and error (cells and returned values) are null until init()
\* has settled, and a cell or returned value that is non-null keeps its value
\* in every later state.
C10_Monotone ==
    /\ [](\A i \in Instances :
            ~Settled(i) =>
                /\ storage[i] = Null /\ error[i] = Null
                /\ returned[i].storage = Null /\ returned[i].error = Null)
    /\ [][ \A i \in Instances :
             /\ storage[i] # Null => storage'[i] = storage[i]
             /\ error[i] # Null => error'[i] = error[i]
             /\ returned[i].storage # Null => returned'[i].storage = returned[i].storage
             /\ returned[i].error # Null => returned'[i].error = returned[i].error ]_vars

\* An instance that holds and has returned its instance while another one,
\* mounted, still waits for init() with both cells null.
C10_Witness ==
    \E i, j \in Instances :
        /\ returned[i].storage # Null /\ returned[i].storage = storage[i]
        /\ life[j] = "mounted" /\ pc[j] = "await" /\ storage[j] = Null

====
